---- MODULE Spec2Model ----
(***************************************************************************)
(* AttachmentModal (src/src/types/form/MoneyRequestMerchantForm.ts,        *)
(* lines 134-523): the attachment preview / upload modal.                  *)
(*                                                                         *)
(* The component's useState cells and its useRef cell are the variables;   *)
(* every callback of the component is one action.  React runs a callback   *)
(* to completion on the single UI thread and applies its setState calls    *)
(* together, so a callback is one atomic step.  The hooks onModalShow and  *)
(* onModalHide are called back by the <Modal> child, whose code is not     *)
(* among the sources: when it calls them is modelled from the written      *)
(* specification (section 4.3), what they do is taken from the source.     *)
(***************************************************************************)
EXTENDS Integers, Sequences, FiniteSets, TLC

VARIABLES
    isModalOpen,                        \* useState(props.defaultOpen)
    shouldLoadAttachment,               \* useState(false)
    isAttachmentInvalid,                \* useState(false)
    isDeleteReceiptConfirmModalVisible, \* useState(false)
    isAuthTokenRequired,                \* useState(props.isAuthTokenRequired)
    isAttachmentReceipt,                \* useState(false)
    attachmentInvalidReasonTitle,       \* useState('')
    attachmentInvalidReason,            \* useState(null)
    source,                             \* useState(props.source)
    modalType,                          \* useState(CENTERED_UNSWIPEABLE)
    isConfirmButtonDisabled,            \* useState(false)
    file,                               \* useState(originalFileName ? {name} : undefined)
    onModalHideCallbackRef,             \* useRef(null): "null" or "navigateToReplace"
    shouldShowDownloadButton,           \* React.useState(true)
    menuDownloadClosure,                \* the state downloadAttachment saw when useMemo last built the menu
    props,                              \* the props the component was mounted with
    modalSurfaceShown,                  \* <Modal>: the surface has finished its entrance
    calls,                              \* the external calls made by the last callback, in order
    lastCallback,                       \* the callback or render that ran last ("none" after mounting)
    signIn,                             \* SignInPage: its props, state cells and environment
    signInView,                         \* SignInPage: what its last render chose to show
    distance,                           \* DistanceRequest: the transaction it shows and its network state
    showHooksForOpening,                \* history: onModalShow runs since isModalOpen last became true
    hideHooksForClose,                  \* history: onModalHide runs since isModalOpen last became false
    navRunsSinceReplace                 \* history: replace navigations run since Replace was last selected

stateVars == <<shouldLoadAttachment, isAttachmentInvalid, isDeleteReceiptConfirmModalVisible,
               isAuthTokenRequired, isAttachmentReceipt, attachmentInvalidReasonTitle,
               attachmentInvalidReason, source, modalType, isConfirmButtonDisabled, file,
               onModalHideCallbackRef>>
vars == <<isModalOpen, shouldLoadAttachment, isAttachmentInvalid,
isDeleteReceiptConfirmModalVisible,
          isAuthTokenRequired, isAttachmentReceipt, attachmentInvalidReasonTitle,
          attachmentInvalidReason, source, modalType, isConfirmButtonDisabled, file,
          onModalHideCallbackRef, shouldShowDownloadButton, menuDownloadClosure,
          props, modalSurfaceShown, calls, lastCallback, signIn, signInView, distance,
          showHooksForOpening, hideHooksForClose, navRunsSinceReplace>>

-----------------------------------------------------------------------------
(* Bounds and constants *)

\* History counters saturate here.
MaxCount == 2

\* CONST.API_ATTACHMENT_VALIDATIONS.MIN_SIZE / MAX_SIZE.  CONST is not among the
\* sources; the model keeps the two thresholds as small stand-ins with
\* 0 < MIN_SIZE < MAX_SIZE, and sizes range over 0 .. MAX_SIZE + 1.
MIN_SIZE == 2
MAX_SIZE == 3

Sizes == 0 .. (MAX_SIZE + 1)

CENTERED_UNSWIPEABLE == "centered_unswipeable"
CENTERED == "centered"

Bump(n) == IF n < MaxCount THEN n + 1 ELSE MaxCount

-----------------------------------------------------------------------------
(* File names, sources, files *)

\* A file name is a sequence of characters whose last element stands for the
\* extension.  " " and "#" are characters cleanFileName does not allow.
AllowedChars == {"a", "u", "_", ".png", ".pdf"}
Names == {<<"a", " ", ".png">>, <<"a", ".pdf">>}

\* FileUtils.cleanFileName: every character outside the allowed set becomes "_".
cleanFileName(name) == [i \in DOMAIN name |-> IF name[i] \in AllowedChars THEN name[i] ELSE "_"]

\* Str.isPDF on a name or URL given as a character sequence.
isPDFName(name) == Len(name) > 0 /\ name[Len(name)] = ".pdf"

NoFile == [kind |-> "undefined"]
EmptySource == [kind |-> "empty"]
ObjectURL(f) == [kind |-> "blob", of |-> f]      \* URL.createObjectURL(f)
UrlSource(u) == [kind |-> "url", url |-> u]

\* Str.isPDF(sourceURL): an object URL ("blob:...") never ends in ".pdf".
isPDFSource(s) == s.kind = "url" /\ isPDFName(s.url)
Truthy(s) == s.kind # "empty"

\* The name of a file record, or the translated 'attachmentView.unknownFilename'.
UnknownFilename == <<"u", ".png">>
FileNameOr(f) == IF f.kind \in {"File", "object", "named"} /\ Len(f.name) > 0 THEN f.name ELSE UnknownFilename

getModalType(sourceURL, _file) ==
    IF Truthy(sourceURL) /\ (isPDFSource(sourceURL) \/ (_file.kind # "undefined" /\ isPDFName(FileNameOr(_file))))
    THEN CENTERED_UNSWIPEABLE
    ELSE CENTERED

-----------------------------------------------------------------------------
(* Inputs: candidate payloads, carousel attachments, props *)

\* A file object: a browser File (kind "File") or a plain object carrying a uri
\* (kind "object").  source is the field lodashExtend(file, {source}) adds.
NotExtended == [kind |-> "absent"]
FileObject(kind, name, hasSize, size, uri) ==
    [kind |-> kind, name |-> name, hasSize |-> hasSize, size |-> size, uri |-> uri, source |-> NotExtended]
NamedFile(name) == [kind |-> "named", name |-> name, source |-> NotExtended]

BrowserFiles == {FileObject("File", n, TRUE, sz, <<>>) : n \in Names, sz \in Sizes}
UriObjects ==
    {FileObject("object", <<"a", ".png">>, TRUE, sz, <<"u", ".pdf">>) : sz \in Sizes}
    \cup {FileObject("object", <<"a", " ", ".png">>, FALSE, 0, <<"u", ".png">>),
          FileObject("object", <<"a", " ", ".png">>, TRUE, MIN_SIZE, <<"u", ".png">>)}

\* What is passed to displayFileInModal.  entry: the result of webkitGetAsEntry
\* ("none": the payload has no such function; "null": the function returns
\* null, as it does for a drag item that is no file); getAsFile: "none" when the
\* payload has no such function and is the file object itself, "null" when the
\* function yields no file.
Candidates ==
    {[entry |-> "none", getAsFile |-> "none", obj |-> f] : f \in BrowserFiles \cup UriObjects}
    \cup {[entry |-> e, getAsFile |-> "file", obj |-> f] : e \in {"file", "dir"}, f \in BrowserFiles}
    \cup {[entry |-> e, getAsFile |-> "null", obj |-> NoFile] : e \in {"file", "dir", "null"}}

\* What the carousel hands to onNavigate.
Attachments ==
    { [source |-> UrlSource(<<"u", ".png">>), isAuthTokenRequired |-> TRUE,
       file |-> NamedFile(<<"a", ".png">>), isReceipt |-> FALSE],
      [source |-> UrlSource(<<"u", ".pdf">>), isAuthTokenRequired |-> FALSE,
       file |-> NamedFile(<<"#", ".pdf">>), isReceipt |-> TRUE],
      [source |-> UrlSource(<<"a", ".png">>), isAuthTokenRequired |-> TRUE,
       file |-> NamedFile(<<"a", " ", ".png">>), isReceipt |-> TRUE] }

\* The inputs of the receipt menu, as delivered by withOnyx and the helper
\* libraries: parentReport / parentReportActions present, ReportUtils.isSettled,
\* ReportActionsUtils.isDeletedAction, Policy.isAdminOfFreePolicy,
\* ReportUtils.isExpenseReport, ReportUtils.isMoneyRequestReport,
\* session.accountID === parentReportAction.actorAccountID,
\* TransactionUtils.hasReceipt, TransactionUtils.isReceiptBeingScanned.
MenuInput(pr, pra, settled, deleted, admin, expense, moneyRequest, actor, receipt, scanning) ==
    [parentReport |-> pr, parentReportActions |-> pra, isSettled |-> settled, isDeleted |-> deleted,
     isAdminOfFreePolicy |-> admin, isExpenseReport |-> expense,
     isMoneyRequestReport |-> moneyRequest, isActor |-> actor,
     hasReceipt |-> receipt, isReceiptBeingScanned |-> scanning]

\* The props of one mounting.  report: whether props.report is non-empty (the
\* carousel is rendered); onConfirm: whether a confirm callback was supplied;
\* children: "none" when no children function was supplied, else what the
\* function wires up: "upload" when it uses displayFileInModal and show (a file
\* picker), "show" when it uses show only (a thumbnail that opens the modal).
\* Two ways of mounting: the upload preview (no report, no source, the
\* children call displayFileInModal and show) and the report attachment view
\* (a report, opened by default on a source of the report).
NoMenuInput == MenuInput(FALSE, FALSE, FALSE, FALSE, FALSE, FALSE, FALSE, FALSE, FALSE, FALSE)
MenuInputs ==
    { MenuInput(TRUE, TRUE, FALSE, FALSE, FALSE, FALSE, TRUE, TRUE, TRUE, FALSE),
      MenuInput(TRUE, TRUE, TRUE, FALSE, TRUE, TRUE, TRUE, TRUE, TRUE, FALSE) }
\* Every combination of the menu's inputs.
AllMenuInputs ==
    { MenuInput(pr, pra, st, dl, ad, ex, mr, ac, rc, sc) :
        pr \in BOOLEAN, pra \in BOOLEAN, st \in BOOLEAN, dl \in BOOLEAN, ad \in BOOLEAN,
        ex \in BOOLEAN, mr \in BOOLEAN, ac \in BOOLEAN, rc \in BOOLEAN, sc \in BOOLEAN }
PropsSet ==
    { [defaultOpen |-> d, onConfirm |-> c, report |-> FALSE, source |-> EmptySource,
       originalFileName |-> <<>>, isAuthTokenRequired |-> FALSE, allowDownload |-> FALSE,
       children |-> "upload", menu |-> NoMenuInput] :
        d \in BOOLEAN, c \in BOOLEAN }
    \cup
    { [defaultOpen |-> TRUE, onConfirm |-> FALSE, report |-> TRUE, source |-> UrlSource(<<"u",
    ".png">>),
       originalFileName |-> <<"a", ".png">>, isAuthTokenRequired |-> TRUE, allowDownload |-> TRUE,
       children |-> "show", menu |-> m] :
        m \in MenuInputs }
\* The report attachment view under every combination of the menu's inputs.
MenuPropsSet ==
    { [defaultOpen |-> TRUE, onConfirm |-> FALSE, report |-> TRUE, source |-> UrlSource(<<"u",
    ".png">>),
       originalFileName |-> <<"a", ".png">>, isAuthTokenRequired |-> TRUE, allowDownload |-> TRUE,
       children |-> "none", menu |-> m] :
        m \in AllMenuInputs }

-----------------------------------------------------------------------------
(* Initial state: the useState / useRef initialisers, lines 135-157 *)

Mounted ==
    /\ isModalOpen = props.defaultOpen
    /\ shouldLoadAttachment = FALSE
    /\ isAttachmentInvalid = FALSE
    /\ isDeleteReceiptConfirmModalVisible = FALSE
    /\ isAuthTokenRequired = props.isAuthTokenRequired
    /\ isAttachmentReceipt = FALSE
    /\ attachmentInvalidReasonTitle = ""
    /\ attachmentInvalidReason = "null"
    /\ source = props.source
    /\ modalType = CENTERED_UNSWIPEABLE
    /\ isConfirmButtonDisabled = FALSE
    /\ file = IF props.originalFileName # <<>> THEN NamedFile(props.originalFileName) ELSE NoFile
    /\ onModalHideCallbackRef = "null"
    /\ shouldShowDownloadButton = TRUE
    /\ menuDownloadClosure = [source |-> source, file |-> file, isAuthTokenRequired |-> isAuthTokenRequired]
    /\ modalSurfaceShown = FALSE
    /\ calls = <<>>
    /\ lastCallback = "none"
    /\ showHooksForOpening = 0
    /\ hideHooksForClose = 0
    /\ navRunsSinceReplace = 0

\* The screens that are not on display while the attachment modal is.
otherScreens == <<signIn, signInView, distance>>
NotOnDisplay == signIn = "none" /\ signInView = "none" /\ distance = "none"

Init == props \in PropsSet /\ Mounted /\ NotOnDisplay

InitMenu == props \in MenuPropsSet /\ Mounted /\ NotOnDisplay

Call(fn) == [fn |-> fn]

\* setIsModalOpen(v), with the history counters restarted on a change.
setIsModalOpen(v) ==
    /\ isModalOpen' = v
    /\ showHooksForOpening' = IF ~isModalOpen /\ v THEN 0 ELSE showHooksForOpening
    /\ hideHooksForClose' = IF isModalOpen /\ ~v THEN 0 ELSE hideHooksForClose

-----------------------------------------------------------------------------
(* File validation, lines 257-333 *)

Valid == [valid |-> TRUE, title |-> "", reason |-> ""]
Invalid(title, reason) == [valid |-> FALSE, title |-> title, reason |-> reason]

FileSize_DefaultMinimum(_file) == IF _file.hasSize THEN _file.size ELSE MIN_SIZE

\* lodashGet(_file, 'size', 0)
FileSize(_file) == IF _file.hasSize THEN _file.size ELSE 0

isValidFile_MaximumExclusive(_file) ==
    IF FileSize(_file) >= MAX_SIZE
    THEN Invalid("attachmentPicker.attachmentTooLarge", "attachmentPicker.sizeExceeded")
    ELSE IF FileSize(_file) < MIN_SIZE
    THEN Invalid("attachmentPicker.attachmentTooSmall", "attachmentPicker.sizeNotMet")
    ELSE Valid

isValidFile_MaximumOffByOne(_file) ==
    IF FileSize(_file) > MAX_SIZE + 1
    THEN Invalid("attachmentPicker.attachmentTooLarge", "attachmentPicker.sizeExceeded")
    ELSE IF FileSize(_file) < MIN_SIZE
    THEN Invalid("attachmentPicker.attachmentTooSmall", "attachmentPicker.sizeNotMet")
    ELSE Valid

\* isValidFile: the verdict and, when it is false, the title and reason it sets.
isValidFile(_file) ==
    IF FileSize(_file) > MAX_SIZE
    THEN Invalid("attachmentPicker.attachmentTooLarge", "attachmentPicker.sizeExceeded")
    ELSE IF FileSize(_file) < MIN_SIZE
    THEN Invalid("attachmentPicker.attachmentTooSmall", "attachmentPicker.sizeNotMet")
    ELSE Valid

isDirectoryCheck_EntryIgnored(_data) == Valid

\* isDirectoryCheck: false (with the folder reason) for a directory entry.
isDirectoryCheck(_data) ==
    IF _data.entry # "none" /\ _data.entry = "dir"
    THEN Invalid("attachmentPicker.attachmentError", "attachmentPicker.folderNotAllowedMessage")
    ELSE Valid

FileObjectOf_NullAsEmptyFile(_data) ==
    IF _data.getAsFile = "null" THEN FileObject("File", <<"a", ".pdf">>, FALSE, 0,
    <<>>) ELSE _data.obj

\* What _data.getAsFile() yields, or _data itself when it has no such function.
FileObjectOf(_data) == IF _data.getAsFile = "null" THEN NoFile ELSE _data.obj

Reject_ClosesModal(verdict) ==
    /\ isAttachmentInvalid' = TRUE
    /\ attachmentInvalidReasonTitle' = verdict.title
    /\ attachmentInvalidReason' = verdict.reason
    /\ setIsModalOpen(FALSE)
    /\ UNCHANGED <<source, file, modalType>>

\* The three setState calls of a rejection; nothing else is touched.
Reject(verdict) ==
    /\ isAttachmentInvalid' = TRUE
    /\ attachmentInvalidReasonTitle' = verdict.title
    /\ attachmentInvalidReason' = verdict.reason
    /\ UNCHANGED <<isModalOpen, showHooksForOpening, hideHooksForClose, source, file, modalType>>

\* The file of record and its source for an accepted file object, lines 308-330.
AcceptedFile(fileObject) ==
    IF fileObject.kind = "File"
    THEN IF fileObject.name # cleanFileName(fileObject.name)
         THEN [fileObject EXCEPT !.name = cleanFileName(fileObject.name)]
         ELSE fileObject
    ELSE fileObject
AcceptedSource(fileObject) ==
    IF fileObject.kind = "File" THEN ObjectURL(AcceptedFile(fileObject)) ELSE UrlSource(fileObject.uri)

Accept(fileObject) ==
    /\ setIsModalOpen(TRUE)
    /\ source' = AcceptedSource(fileObject)
    /\ file' = AcceptedFile(fileObject)
    /\ modalType' = getModalType(AcceptedSource(fileObject), AcceptedFile(fileObject))
    /\ UNCHANGED <<isAttachmentInvalid, attachmentInvalidReasonTitle, attachmentInvalidReason>>

\* _data.webkitGetAsEntry().isDirectory with webkitGetAsEntry() null: line 279
\* raises a TypeError and the callback ends there.
isDirectoryCheckThrows(_data) == _data.entry = "null"

validateAndDisplayFileToUpload(_data) ==
    /\ lastCallback' = "displayFileInModal"
    /\ IF isDirectoryCheckThrows(_data)
       THEN UNCHANGED <<isModalOpen, showHooksForOpening, hideHooksForClose, source, file,
                        modalType,
                        isAttachmentInvalid, attachmentInvalidReasonTitle, attachmentInvalidReason>>
       ELSE IF ~isDirectoryCheck(_data).valid THEN Reject(isDirectoryCheck(_data))
       ELSE IF FileObjectOf(_data) = NoFile
       THEN UNCHANGED <<isModalOpen, showHooksForOpening, hideHooksForClose, source, file,
                        modalType,
                        isAttachmentInvalid, attachmentInvalidReasonTitle, attachmentInvalidReason>>
       ELSE IF ~isValidFile(FileObjectOf(_data)).valid THEN Reject(isValidFile(FileObjectOf(_data)))
       ELSE Accept(FileObjectOf(_data))
    /\ calls' = IF isDirectoryCheckThrows(_data) THEN <<Call("throw TypeError")>> ELSE <<>>
    /\ UNCHANGED <<shouldLoadAttachment, isDeleteReceiptConfirmModalVisible, isAuthTokenRequired,
                   isAttachmentReceipt, isConfirmButtonDisabled, onModalHideCallbackRef, props, otherScreens,
                   shouldShowDownloadButton, menuDownloadClosure,
                   modalSurfaceShown, navRunsSinceReplace>>

\* The last payload handed to displayFileInModal is kept in no variable; the
\* action draws it from Candidates.  displayFileInModal and show are handed to
\* props.children only (lines 515-519).
DisplayFileInModal ==
    /\ props.children = "upload"
    /\ \E _data \in Candidates : validateAndDisplayFileToUpload(_data)

-----------------------------------------------------------------------------
(* Carousel navigation, lines 167-176 *)

onNavigate(attachment) ==
    /\ lastCallback' = "onNavigate"
    /\ source' = attachment.source
    /\ file' = attachment.file
    /\ isAttachmentReceipt' = attachment.isReceipt
    /\ isAuthTokenRequired' = attachment.isAuthTokenRequired
    /\ calls' = <<Call("props.onCarouselAttachmentChange")>>
    \* useMemo rebuilds the menu, and with it the downloadAttachment its Download
    \* item calls, only when one of its dependencies (line 411) has changed.
    /\ menuDownloadClosure' =
            IF attachment.isReceipt # isAttachmentReceipt
            THEN [source |-> attachment.source, file |-> attachment.file,
                  isAuthTokenRequired |-> attachment.isAuthTokenRequired]
            ELSE menuDownloadClosure
    /\ UNCHANGED <<isModalOpen, showHooksForOpening, hideHooksForClose, shouldLoadAttachment,
                   isAttachmentInvalid, isDeleteReceiptConfirmModalVisible,
                   attachmentInvalidReasonTitle,
                   attachmentInvalidReason, modalType, isConfirmButtonDisabled,
                   onModalHideCallbackRef,
                   props, otherScreens, shouldShowDownloadButton, modalSurfaceShown, navRunsSinceReplace>>

\* The carousel is rendered inside the modal when props.report is not empty
\* (line 451); it reports the attachment it shows.
CarouselNavigate ==
    /\ props.report
    /\ isModalOpen \/ modalSurfaceShown
    /\ \E attachment \in Attachments : onNavigate(attachment)

-----------------------------------------------------------------------------
(* Confirm gate, lines 221-234 and 343-355 *)

\* lodashExtend(file, {source}): the object held in the file cell gains the
\* field source; with file undefined a fresh object is built and no cell changes.
lodashExtend(_file, _source) ==
    IF _file.kind = "undefined" THEN [kind |-> "fresh", source |-> _source]
    ELSE [_file EXCEPT !.source = _source]

canSubmit_DisabledIgnored == isModalOpen

\* The guard of line 224, negated: the submit goes through.
canSubmit == isModalOpen /\ ~isConfirmButtonDisabled

submitAndClose ==
    /\ lastCallback' = "submitAndClose"
    /\ IF ~canSubmit
       THEN /\ calls' = <<>>
            /\ UNCHANGED <<isModalOpen, showHooksForOpening, hideHooksForClose, file>>
       ELSE /\ IF props.onConfirm
               THEN /\ calls' = <<[fn |-> "props.onConfirm", arg |-> lodashExtend(file, source)]>>
                    /\ file' = IF file.kind = "undefined" THEN file ELSE lodashExtend(file, source)
               ELSE /\ calls' = <<>>
                    /\ UNCHANGED file
            /\ setIsModalOpen(FALSE)
    /\ UNCHANGED <<shouldLoadAttachment, isAttachmentInvalid, isDeleteReceiptConfirmModalVisible,
                   isAuthTokenRequired, isAttachmentReceipt, attachmentInvalidReasonTitle,
                   attachmentInvalidReason, source, modalType, isConfirmButtonDisabled,
                   onModalHideCallbackRef, props, otherScreens, shouldShowDownloadButton, menuDownloadClosure,
                   modalSurfaceShown, navRunsSinceReplace>>

updateConfirmButtonVisibility(shouldFadeOut) ==
    /\ lastCallback' = "updateConfirmButtonVisibility"
    /\ isConfirmButtonDisabled' = shouldFadeOut
    /\ calls' = <<[fn |-> "Animated.timing", toValue |-> IF shouldFadeOut THEN 0 ELSE 1]>>
    /\ UNCHANGED <<isModalOpen, showHooksForOpening, hideHooksForClose, shouldLoadAttachment,
                   isAttachmentInvalid, isDeleteReceiptConfirmModalVisible, isAuthTokenRequired,
                   isAttachmentReceipt, attachmentInvalidReasonTitle, attachmentInvalidReason,
                   source,
                   modalType, file, onModalHideCallbackRef, props, otherScreens, shouldShowDownloadButton,
                   menuDownloadClosure, modalSurfaceShown, navRunsSinceReplace>>

\* onToggleKeyboard of the content view, rendered inside the modal.
ToggleKeyboard ==
    /\ isModalOpen \/ modalSurfaceShown
    /\ \E shouldFadeOut \in BOOLEAN : updateConfirmButtonVisibility(shouldFadeOut)

-----------------------------------------------------------------------------
(* Dialogs, lines 239-242 *)

closeConfirmModal ==
    /\ lastCallback' = "closeConfirmModal"
    /\ isAttachmentInvalid \/ isDeleteReceiptConfirmModalVisible
    /\ isAttachmentInvalid' = FALSE
    /\ isDeleteReceiptConfirmModalVisible' = FALSE
    /\ calls' = <<>>
    /\ UNCHANGED <<isModalOpen, showHooksForOpening, hideHooksForClose, shouldLoadAttachment,
                   isAuthTokenRequired, isAttachmentReceipt, attachmentInvalidReasonTitle,
                   attachmentInvalidReason, source, modalType, isConfirmButtonDisabled, file,
                   onModalHideCallbackRef, props, otherScreens, shouldShowDownloadButton, menuDownloadClosure,
                   modalSurfaceShown, navRunsSinceReplace>>

-----------------------------------------------------------------------------
(* Opening and closing, lines 360-369 *)

closeModal_Toggle ==
    /\ lastCallback' = "closeModal"
    /\ setIsModalOpen(~isModalOpen)
    /\ calls' = <<>>
    /\ UNCHANGED <<stateVars, props, otherScreens, shouldShowDownloadButton, menuDownloadClosure,
                   modalSurfaceShown, navRunsSinceReplace>>

closeModal_ClearsInvalid ==
    /\ lastCallback' = "closeModal"
    /\ setIsModalOpen(FALSE)
    /\ isAttachmentInvalid' = FALSE
    /\ calls' = <<>>
    /\ UNCHANGED <<shouldLoadAttachment, isDeleteReceiptConfirmModalVisible, isAuthTokenRequired,
                   isAttachmentReceipt, attachmentInvalidReasonTitle, attachmentInvalidReason,
                   source,
                   modalType, isConfirmButtonDisabled, file, onModalHideCallbackRef, props, otherScreens,
                   shouldShowDownloadButton, menuDownloadClosure, modalSurfaceShown,
                   navRunsSinceReplace>>

closeModal ==
    /\ lastCallback' = "closeModal"
    /\ setIsModalOpen(FALSE)
    /\ calls' = <<>>
    /\ UNCHANGED <<stateVars, props, otherScreens, shouldShowDownloadButton, menuDownloadClosure,
                   modalSurfaceShown, navRunsSinceReplace>>

openModal_LoadsAtOnce ==
    /\ lastCallback' = "openModal"
    /\ props.children # "none"
    /\ setIsModalOpen(TRUE)
    /\ shouldLoadAttachment' = TRUE
    /\ calls' = <<>>
    /\ UNCHANGED <<isAttachmentInvalid, isDeleteReceiptConfirmModalVisible, isAuthTokenRequired,
                   isAttachmentReceipt, attachmentInvalidReasonTitle, attachmentInvalidReason,
                   source,
                   modalType, isConfirmButtonDisabled, file, onModalHideCallbackRef, props, otherScreens,
                   shouldShowDownloadButton, menuDownloadClosure, modalSurfaceShown,
                   navRunsSinceReplace>>

openModal_EnablesConfirm ==
    /\ lastCallback' = "openModal"
    /\ props.children # "none"
    /\ setIsModalOpen(TRUE)
    /\ isConfirmButtonDisabled' = FALSE
    /\ calls' = <<>>
    /\ UNCHANGED <<shouldLoadAttachment, isAttachmentInvalid, isDeleteReceiptConfirmModalVisible,
                   isAuthTokenRequired, isAttachmentReceipt, attachmentInvalidReasonTitle,
                   attachmentInvalidReason, source, modalType, file, onModalHideCallbackRef, props, otherScreens,
                   shouldShowDownloadButton, menuDownloadClosure, modalSurfaceShown,
                   navRunsSinceReplace>>

openModal ==
    /\ lastCallback' = "openModal"
    /\ props.children # "none"
    /\ setIsModalOpen(TRUE)
    /\ calls' = <<>>
    /\ UNCHANGED <<stateVars, props, otherScreens, shouldShowDownloadButton, menuDownloadClosure,
                   modalSurfaceShown, navRunsSinceReplace>>

-----------------------------------------------------------------------------
(* Receipt menu, lines 373-411 *)

\* The early return of line 374, negated: the menu is computed.
hasReceiptContext_ActionsIgnored == isAttachmentReceipt /\ props.menu.parentReport

hasReceiptContext == isAttachmentReceipt /\ props.menu.parentReport /\ props.menu.parentReportActions

\* isAdmin, isRequestor and canEdit, lines 382-384.
isAdmin == props.menu.isAdminOfFreePolicy /\ props.menu.isExpenseReport
isRequestor == props.menu.isMoneyRequestReport /\ props.menu.isActor

canEdit_DeletedIgnored == ~props.menu.isSettled /\ (isAdmin \/ isRequestor)

canEdit == ~props.menu.isSettled /\ ~props.menu.isDeleted /\ (isAdmin \/ isRequestor)

\* The condition of line 400.
canDeleteReceipt_ScanIgnored == props.menu.hasReceipt

canDeleteReceipt == props.menu.hasReceipt /\ ~props.menu.isReceiptBeingScanned

threeDotsMenuItems ==
    IF ~hasReceiptContext
    THEN <<>>
    ELSE (IF canEdit THEN <<"common.replace">> ELSE <<>>)
         \o <<"common.download">>
         \o (IF canDeleteReceipt THEN <<"receipt.deleteReceipt">> ELSE <<>>)

MenuHas(item) == \E i \in DOMAIN threeDotsMenuItems : threeDotsMenuItems[i] = item

\* The three-dots button is shown while isAttachmentReceipt && isModalOpen (line 445).
\* onSelected of Replace, lines 389-392: the ref is set, then closeModal().
ReplaceSelected ==
    /\ lastCallback' = "common.replace"
    /\ isAttachmentReceipt /\ isModalOpen
    /\ MenuHas("common.replace")
    /\ onModalHideCallbackRef' = "navigateToReplace"
    /\ navRunsSinceReplace' = 0
    /\ setIsModalOpen(FALSE)
    /\ calls' = <<>>
    /\ UNCHANGED <<shouldLoadAttachment, isAttachmentInvalid, isDeleteReceiptConfirmModalVisible,
                   isAuthTokenRequired, isAttachmentReceipt, attachmentInvalidReasonTitle,
                   attachmentInvalidReason, source, modalType, isConfirmButtonDisabled, file,
                   props, otherScreens, shouldShowDownloadButton, menuDownloadClosure, modalSurfaceShown>>

DeleteReceiptSelected_DetachesAtOnce ==
    /\ lastCallback' = "receipt.deleteReceipt"
    /\ isAttachmentReceipt /\ isModalOpen
    /\ MenuHas("receipt.deleteReceipt")
    /\ isDeleteReceiptConfirmModalVisible' = TRUE
    /\ calls' = <<Call("IOU.detachReceipt")>>
    /\ UNCHANGED <<isModalOpen, showHooksForOpening, hideHooksForClose, shouldLoadAttachment,
                   isAttachmentInvalid, isAuthTokenRequired, isAttachmentReceipt,
                   attachmentInvalidReasonTitle, attachmentInvalidReason, source, modalType,
                   isConfirmButtonDisabled, file, onModalHideCallbackRef, props, otherScreens,
                   shouldShowDownloadButton, menuDownloadClosure, modalSurfaceShown,
                   navRunsSinceReplace>>

\* onSelected of Delete receipt, lines 404-406.
DeleteReceiptSelected ==
    /\ lastCallback' = "receipt.deleteReceipt"
    /\ isAttachmentReceipt /\ isModalOpen
    /\ MenuHas("receipt.deleteReceipt")
    /\ isDeleteReceiptConfirmModalVisible' = TRUE
    /\ calls' = <<>>
    /\ UNCHANGED <<isModalOpen, showHooksForOpening, hideHooksForClose, shouldLoadAttachment,
                   isAttachmentInvalid, isAuthTokenRequired, isAttachmentReceipt,
                   attachmentInvalidReasonTitle, attachmentInvalidReason, source, modalType,
                   isConfirmButtonDisabled, file, onModalHideCallbackRef, props, otherScreens,
                   shouldShowDownloadButton, menuDownloadClosure, modalSurfaceShown,
                   navRunsSinceReplace>>

\* deleteAndCloseModal, lines 247-251: onConfirm of the delete dialog, which is
\* rendered while isAttachmentReceipt (line 493).
deleteAndCloseModal ==
    /\ lastCallback' = "deleteAndCloseModal"
    /\ isAttachmentReceipt /\ isDeleteReceiptConfirmModalVisible
    /\ isDeleteReceiptConfirmModalVisible' = FALSE
    /\ calls' = <<Call("IOU.detachReceipt"), Call("Navigation.dismissModal")>>
    /\ UNCHANGED <<isModalOpen, showHooksForOpening, hideHooksForClose, shouldLoadAttachment,
                   isAttachmentInvalid, isAuthTokenRequired, isAttachmentReceipt,
                   attachmentInvalidReasonTitle, attachmentInvalidReason, source, modalType,
                   isConfirmButtonDisabled, file, onModalHideCallbackRef, props, otherScreens,
                   shouldShowDownloadButton, menuDownloadClosure, modalSurfaceShown,
                   navRunsSinceReplace>>

-----------------------------------------------------------------------------
(* Download, lines 192-216 *)

\* addEncryptedAuthTokenToURL(sourceURL)
AuthTokenURL(s) == [kind |-> "auth", of |-> s]

\* The calls of downloadAttachment for the source, file and isAuthTokenRequired
\* its closure holds; file.name with file undefined raises a TypeError.
downloadAttachmentCalls(closure) ==
    IF closure.file.kind = "undefined"
    THEN <<Call("throw TypeError")>>
    ELSE << [fn |-> "fileDownload",
             url |-> IF closure.isAuthTokenRequired THEN AuthTokenURL(closure.source) ELSE closure.source,
             name |-> closure.file.name],
            Call("Keyboard.dismiss") >>

\* downloadAttachment sets no state.
downloadAttachment(closure) ==
    /\ calls' = downloadAttachmentCalls(closure)
    /\ UNCHANGED <<isModalOpen, showHooksForOpening, hideHooksForClose, stateVars, props, otherScreens,
                   shouldShowDownloadButton, menuDownloadClosure, modalSurfaceShown,
                   navRunsSinceReplace>>

\* onSelected of Download (line 398): the downloadAttachment of the render in
\* which the menu was last built.
DownloadSelected ==
    /\ lastCallback' = "common.download"
    /\ isAttachmentReceipt /\ isModalOpen
    /\ MenuHas("common.download")
    /\ downloadAttachment(menuDownloadClosure)

\* onDownloadButtonPress of the header (lines 439-440): the downloadAttachment of
\* the current render.  The button also needs the client to be online.
DownloadButtonPressed ==
    /\ lastCallback' = "onDownloadButtonPress"
    /\ isModalOpen \/ modalSurfaceShown
    /\ props.allowDownload /\ shouldShowDownloadButton /\ ~isAttachmentReceipt
    /\ downloadAttachment([source |-> source, file |-> file, isAuthTokenRequired |-> isAuthTokenRequired])

setDownloadButtonVisibility(shouldShowButton) ==
    /\ lastCallback' = "setDownloadButtonVisibility"
    /\ shouldShowDownloadButton' = shouldShowButton
    /\ calls' = <<>>
    /\ UNCHANGED <<isModalOpen, showHooksForOpening, hideHooksForClose, stateVars, props, otherScreens,
                   menuDownloadClosure, modalSurfaceShown, navRunsSinceReplace>>

\* The carousel reports whether the download button applies (line 458).
CarouselSetsDownloadButton ==
    /\ props.report
    /\ isModalOpen \/ modalSurfaceShown
    /\ \E shouldShowButton \in BOOLEAN : setDownloadButtonVisibility(shouldShowButton)

-----------------------------------------------------------------------------
(* The hooks the <Modal> child calls back, lines 421-432 *)

\* When <Modal> calls the hooks (its code is not among the sources; section 4.3
\* of the specification): onModalShow once the surface has finished entering
\* while isVisible, onModalHide once it has finished leaving while not isVisible.
ModalEntranceDone == isModalOpen /\ ~modalSurfaceShown
ModalExitDone == ~isModalOpen /\ modalSurfaceShown

onModalHideCalls_NavigateFirst ==
    (IF onModalHideCallbackRef # "null" THEN <<Call("Navigation.navigate")>> ELSE <<>>)
    \o <<Call("props.onModalHide")>>

\* The calls of the onModalHide handler, in program order.
onModalHideCalls ==
    <<Call("props.onModalHide")>>
    \o (IF onModalHideCallbackRef # "null" THEN <<Call("Navigation.navigate")>> ELSE <<>>)

\* What the onModalShow handler leaves in shouldLoadAttachment.
onModalShowLoad == TRUE
onModalHideLoad_NotCleared == shouldLoadAttachment

\* What the onModalHide handler leaves in shouldLoadAttachment.
onModalHideLoad == FALSE

onModalShow ==
    /\ lastCallback' = "onModalShow"
    /\ ModalEntranceDone
    /\ modalSurfaceShown' = TRUE
    /\ calls' = <<Call("props.onModalShow")>>
    /\ shouldLoadAttachment' = onModalShowLoad
    /\ showHooksForOpening' = Bump(showHooksForOpening)
    /\ UNCHANGED <<isModalOpen, hideHooksForClose, isAttachmentInvalid,
                   isDeleteReceiptConfirmModalVisible, isAuthTokenRequired, isAttachmentReceipt,
                   attachmentInvalidReasonTitle, attachmentInvalidReason, source, modalType,
                   isConfirmButtonDisabled, file, onModalHideCallbackRef, props, otherScreens,
                   shouldShowDownloadButton, menuDownloadClosure, navRunsSinceReplace>>

onModalHide ==
    /\ lastCallback' = "onModalHide"
    /\ ModalExitDone
    /\ modalSurfaceShown' = FALSE
    /\ calls' = onModalHideCalls
    /\ shouldLoadAttachment' = onModalHideLoad
    /\ hideHooksForClose' = Bump(hideHooksForClose)
    /\ navRunsSinceReplace' = IF onModalHideCallbackRef # "null" THEN Bump(navRunsSinceReplace)
                                                              ELSE navRunsSinceReplace
    /\ UNCHANGED <<isModalOpen, showHooksForOpening, isAttachmentInvalid,
                   isDeleteReceiptConfirmModalVisible, isAuthTokenRequired, isAttachmentReceipt,
                   attachmentInvalidReasonTitle, attachmentInvalidReason, source, modalType,
                   isConfirmButtonDisabled, file, onModalHideCallbackRef, props, otherScreens,
                   shouldShowDownloadButton, menuDownloadClosure>>

-----------------------------------------------------------------------------
Next ==
    \/ DisplayFileInModal
    \/ CarouselNavigate
    \/ submitAndClose
    \/ ToggleKeyboard
    \/ closeConfirmModal
    \/ closeModal
    \/ openModal
    \/ ReplaceSelected
    \/ DeleteReceiptSelected
    \/ deleteAndCloseModal
    \/ DownloadSelected
    \/ DownloadButtonPressed
    \/ CarouselSetsDownloadButton
    \/ onModalShow
    \/ onModalHide

Spec == Init /\ [][Next]_vars

\* The receipt menu under all of its inputs: the callbacks that change what
\* the menu is computed from, and the menu's own items.
NextMenu ==
    \/ CarouselNavigate
    \/ ReplaceSelected
    \/ DownloadSelected
    \/ DeleteReceiptSelected
    \/ deleteAndCloseModal
    \/ closeConfirmModal

SpecMenu == InitMenu /\ [][NextMenu]_vars

-----------------------------------------------------------------------------
(* SignInPage (src/unnamed/part_000, lines 378-523) *)

\* The cells of the attachment modal, which is not mounted on the sign-in page.
modalCells ==
    <<isModalOpen, stateVars, shouldShowDownloadButton, menuDownloadClosure, props,
      modalSurfaceShown, showHooksForOpening, hideHooksForClose, navRunsSinceReplace>>

\* What a render of SignInPage reads.  From the Onyx props credentials and
\* account: hasLogin, hasValidateCode, hasAccount, isPrimaryLogin,
\* isAccountValidated, isSAMLEnabled, isSAMLRequired, hasEmailDeliveryFailure,
\* requiresTwoFactorAuth, isLoadingLoginForm (account.loadingForm is the login
\* form).  State cells: isUsingMagicCode, isUsingRecoveryCode.  Environment:
\* isSAMLPermitted (Permissions.canUseSAML() or the platform is web or desktop),
\* isSmallScreenWidth, isInModal.
OnyxFields ==
    {"hasLogin", "hasValidateCode", "hasAccount", "isPrimaryLogin", "isAccountValidated",
     "isSAMLEnabled", "isSAMLRequired", "hasEmailDeliveryFailure", "requiresTwoFactorAuth",
     "isLoadingLoginForm"}
StateFields == {"isUsingMagicCode", "isUsingRecoveryCode"}
EnvironmentFields == {"isSAMLPermitted", "isSmallScreenWidth", "isInModal"}
SignInFields == OnyxFields \cup StateFields \cup EnvironmentFields

\* Lines 381-388.
shouldShowLoginForm(o) == ~o.hasLogin /\ ~o.hasValidateCode

shouldShowChooseSSOOrMagicCode(o) ==
    /\ o.isSAMLPermitted
    /\ o.hasAccount /\ o.hasLogin /\ o.isSAMLEnabled /\ ~o.isSAMLRequired /\ ~o.isUsingMagicCode

shouldInitiateSAMLLogin(o) == o.isSAMLPermitted /\ o.hasAccount /\ o.hasLogin /\ o.isSAMLRequired

\* Lines 390-394.
shouldShowEmailDeliveryFailurePage(o) ==
    o.hasLogin /\ o.hasEmailDeliveryFailure /\ ~shouldShowChooseSSOOrMagicCode(o)

isUnvalidatedSecondaryLogin(o) ==
    o.hasLogin /\ ~o.isPrimaryLogin /\ ~o.isAccountValidated /\ ~o.hasEmailDeliveryFailure

shouldShowValidateCodeForm_SAMLIgnored(o) ==
    /\ o.hasAccount /\ (o.hasLogin \/ o.hasValidateCode)
    /\ ~isUnvalidatedSecondaryLogin(o) /\ ~o.hasEmailDeliveryFailure
    /\ ~shouldShowChooseSSOOrMagicCode(o)

shouldShowValidateCodeForm(o) ==
    /\ o.hasAccount /\ (o.hasLogin \/ o.hasValidateCode)
    /\ ~isUnvalidatedSecondaryLogin(o) /\ ~o.hasEmailDeliveryFailure
    /\ ~shouldShowChooseSSOOrMagicCode(o) /\ ~shouldInitiateSAMLLogin(o)

\* Lines 378-407.
getRenderOptions(o) ==
    [shouldShowLoginForm |-> shouldShowLoginForm(o),
     shouldShowEmailDeliveryFailurePage |-> shouldShowEmailDeliveryFailurePage(o),
     shouldShowUnlinkLoginForm |-> isUnvalidatedSecondaryLogin(o),
     shouldShowValidateCodeForm |-> shouldShowValidateCodeForm(o),
     shouldShowChooseSSOOrMagicCode |-> shouldShowChooseSSOOrMagicCode(o),
     shouldInitiateSAMLLogin |-> shouldInitiateSAMLLogin(o),
     shouldShowWelcomeHeader |->
        \/ shouldShowLoginForm(o) \/ shouldShowValidateCodeForm(o)
        \/ shouldShowChooseSSOOrMagicCode(o) \/ isUnvalidatedSecondaryLogin(o),
     shouldShowWelcomeText |->
        shouldShowLoginForm(o) \/ shouldShowValidateCodeForm(o) \/ shouldShowChooseSSOOrMagicCode(o)]


\* The last branch of lines 454-491: none of the views has a welcome message.
isInertBranch(r) ==
    /\ ~r.shouldShowLoginForm /\ ~r.shouldShowValidateCodeForm
    /\ ~(r.shouldShowUnlinkLoginForm \/ r.shouldShowEmailDeliveryFailurePage
          \/ r.shouldShowChooseSSOOrMagicCode)

shouldWarn_SAMLIgnored(r) == isInertBranch(r)

\* Lines 487-490.
shouldWarn(r) == isInertBranch(r) /\ ~r.shouldInitiateSAMLLogin

\* A string is the sequence of the translation keys it is put together from;
\* the empty string is the empty sequence.
shouldShowSmallScreen(o) == o.isSmallScreenWidth \/ o.isInModal

\* welcomeHeader, lines 452-491.
welcomeHeader(o, r) ==
    IF r.shouldShowLoginForm
    THEN IF o.isSmallScreenWidth THEN <<"login.hero.header">> ELSE <<"welcomeText.getStarted">>
    ELSE IF r.shouldShowValidateCodeForm
    THEN IF o.requiresTwoFactorAuth
         THEN IF o.isSmallScreenWidth THEN <<>> ELSE <<"welcomeText.welcomeBack">>
         ELSE IF shouldShowSmallScreen(o) THEN <<>>
         ELSE IF o.isAccountValidated THEN <<"welcomeText.welcomeBack">> ELSE <<"welcomeText.welcome">>
    ELSE IF ~isInertBranch(r)
    THEN IF shouldShowSmallScreen(o) THEN <<"login.hero.header">> ELSE <<"welcomeText.welcomeBack">>
    ELSE <<>>

\* welcomeText, lines 452-491.
welcomeText(o, r) ==
    IF r.shouldShowLoginForm
    THEN IF o.isSmallScreenWidth THEN <<"welcomeText.getStarted">> ELSE <<>>
    ELSE IF r.shouldShowValidateCodeForm
    THEN IF o.requiresTwoFactorAuth
         THEN IF o.isUsingRecoveryCode THEN <<"validateCodeForm.enterRecoveryCode">>
                                       ELSE <<"validateCodeForm.enterAuthenticatorCode">>
         ELSE (IF ~shouldShowSmallScreen(o) THEN <<>>
               ELSE IF o.isAccountValidated THEN <<"welcomeText.welcomeBack">>
               ELSE <<"welcomeText.welcome">>)
              \o (IF o.isAccountValidated THEN <<"welcomeText.welcomeEnterMagicCode">>
                                          ELSE <<"welcomeText.newFaceEnterMagicCode">>)
    ELSE <<>>

\* The forms rendered visibly, lines 507-521.
RenderedViews(r) ==
    {v \in {"LoginForm", "ValidateCodeForm", "UnlinkLoginForm", "ChooseSSOOrMagicCode",
             "EmailDeliveryFailurePage"} :
        \/ v = "LoginForm" /\ r.shouldShowLoginForm
        \/ v = "ValidateCodeForm" /\ r.shouldShowValidateCodeForm
        \/ v = "UnlinkLoginForm" /\ r.shouldShowUnlinkLoginForm
        \/ v = "ChooseSSOOrMagicCode" /\ r.shouldShowChooseSSOOrMagicCode
        \/ v = "EmailDeliveryFailurePage" /\ r.shouldShowEmailDeliveryFailurePage}

\* What a render of SignInPage with the inputs o shows.
SignInViewOf(o) ==
    [options |-> getRenderOptions(o),
     views |-> RenderedViews(getRenderOptions(o)),
     welcomeHeader |-> welcomeHeader(o, getRenderOptions(o)),
     welcomeText |-> welcomeText(o, getRenderOptions(o))]

\* What a render calls: the SAML navigation (lines 446-450), then the warning.
SignInCallsOf(o) ==
    (IF getRenderOptions(o).shouldInitiateSAMLLogin /\ o.isLoadingLoginForm
     THEN <<[fn |-> "Navigation.navigate", route |-> "ROUTES.SAML_SIGN_IN"]>> ELSE <<>>)
    \o (IF shouldWarn(getRenderOptions(o)) THEN <<Call("Log.warn")>> ELSE <<>>)

\* The page renders with the inputs o.
SignInPage(o) ==
    /\ signIn' = o
    /\ signInView' = SignInViewOf(o)
    /\ calls' = SignInCallsOf(o)
    /\ lastCallback' = "SignInPage"
    /\ UNCHANGED <<modalCells, distance>>

\* The first render, on a wide window: Onyx delivers any credentials and
\* account, the state cells hold their useState(false).
InitSignIn ==
    /\ signIn \in {o \in [SignInFields -> BOOLEAN] :
                    ~o.isUsingMagicCode /\ ~o.isUsingRecoveryCode /\ ~o.isSmallScreenWidth}
    /\ signInView = SignInViewOf(signIn)
    /\ calls = SignInCallsOf(signIn)
    /\ lastCallback = "SignInPage"
    /\ distance = "none"
    /\ props \in {p \in PropsSet : ~p.defaultOpen /\ ~p.onConfirm}
    /\ isModalOpen = FALSE
    /\ shouldLoadAttachment = FALSE
    /\ isAttachmentInvalid = FALSE
    /\ isDeleteReceiptConfirmModalVisible = FALSE
    /\ isAuthTokenRequired = FALSE
    /\ isAttachmentReceipt = FALSE
    /\ attachmentInvalidReasonTitle = ""
    /\ attachmentInvalidReason = "null"
    /\ source = EmptySource
    /\ modalType = CENTERED_UNSWIPEABLE
    /\ isConfirmButtonDisabled = FALSE
    /\ file = NoFile
    /\ onModalHideCallbackRef = "null"
    /\ shouldShowDownloadButton = TRUE
    /\ menuDownloadClosure = [source |-> source, file |-> file, isAuthTokenRequired |-> FALSE]
    /\ modalSurfaceShown = FALSE
    /\ showHooksForOpening = 0
    /\ hideHooksForClose = 0
    /\ navRunsSinceReplace = 0

\* withOnyx delivers a change of credentials or account.
OnyxUpdate ==
    /\ \E f \in OnyxFields : SignInPage([signIn EXCEPT ![f] = ~signIn[f]])

\* The window is resized across the small-screen breakpoint.
WindowResized ==
    /\ SignInPage([signIn EXCEPT !.isSmallScreenWidth = ~signIn.isSmallScreenWidth])

\* setIsUsingMagicCode, handed to ValidateCodeForm and ChooseSSOOrMagicCode
\* (lines 512-516).
setIsUsingMagicCode ==
    /\ \/ signInView.options.shouldShowValidateCodeForm
       \/ signInView.options.shouldShowChooseSSOOrMagicCode
    /\ \E v \in BOOLEAN :
        /\ v # signIn.isUsingMagicCode
        /\ SignInPage([signIn EXCEPT !.isUsingMagicCode = v])

\* setIsUsingRecoveryCode, handed to ValidateCodeForm (line 511).
setIsUsingRecoveryCode ==
    /\ signInView.options.shouldShowValidateCodeForm
    /\ \E v \in BOOLEAN :
        /\ v # signIn.isUsingRecoveryCode
        /\ SignInPage([signIn EXCEPT !.isUsingRecoveryCode = v])

NextSignIn ==
    \/ OnyxUpdate
    \/ WindowResized
    \/ setIsUsingMagicCode
    \/ setIsUsingRecoveryCode

SpecSignIn == InitSignIn /\ [][NextSignIn]_vars

-----------------------------------------------------------------------------
(* DistanceRequest (src/src/types/form/MoneyRequestMerchantForm.ts, lines 558-889) *)

\* The screen's props and hooks are its state: the transaction Onyx delivers
\* (its waypoints, isLoading, errorFields.route, route) and useNetwork's
\* isOffline.  The waypoint
\* map {waypoint0: .., waypoint(n-1): ..} is a sequence: position i holds the
\* value of key waypoint(i-1).  A waypoint value is "empty" ({}: no address
\* yet) or an address; "null" is the default lodashGet falls back to.

MAX_WAYPOINTS == 25
\* The rows the model presses, edits to any address and drags: the first
\* MaxVaried.  Stops added further down get the address "a" and stay put.
MaxVaried == 3

Addresses == {"a", "b"}
WaypointKeys(waypoints) == 1 .. Len(waypoints)
numberOfWaypointsOf(d) == Len(d.waypoints)

\* TransactionUtils.getValidWaypoints is not among the sources: the waypoints
\* that have an address, in order and re-keyed.
getValidWaypoints(waypoints) == SelectSeq(waypoints, LAMBDA w : w \in Addresses)

\* usePrevious is not among the sources: what it gave at the previous render,
\* as a set of at most one waypoint map; the empty set is undefined.
sizeOf(previousWaypoints) ==
    IF previousWaypoints = {} THEN 0 ELSE Len(CHOOSE w \in previousWaypoints : TRUE)

shouldFetchRoute_LoadingIgnored(previousWaypoints, d) ==
    LET validatedWaypoints == getValidWaypoints(d.waypoints)
        previousValidatedWaypoints == {getValidWaypoints(w) : w \in previousWaypoints}
        haveValidatedWaypointsChanged == previousValidatedWaypoints # {validatedWaypoints}
        isRouteAbsentWithoutErrors == ~d.hasRoute /\ ~d.hasRouteError
    IN  /\ isRouteAbsentWithoutErrors \/ haveValidatedWaypointsChanged
        /\ Len(validatedWaypoints) > 1

\* Lines 660-669.
shouldFetchRoute(previousWaypoints, d) ==
    LET validatedWaypoints == getValidWaypoints(d.waypoints)
        previousValidatedWaypoints == {getValidWaypoints(w) : w \in previousWaypoints}
        haveValidatedWaypointsChanged == previousValidatedWaypoints # {validatedWaypoints}
        isRouteAbsentWithoutErrors == ~d.hasRoute /\ ~d.hasRouteError
    IN  /\ isRouteAbsentWithoutErrors \/ haveValidatedWaypointsChanged
        /\ ~d.isLoading
        /\ Len(validatedWaypoints) > 1

TransactionOf(d) == <<d.waypoints, d.isLoading, d.hasRouteError, d.hasRoute>>

\* Lines 710-716: runs when the transaction changed (waypoints is memoised on it).
createInitialWaypointsEffect(isFirstRender, d) ==
    IF (isFirstRender \/ TransactionOf(distance) # TransactionOf(d)) /\ d.waypoints = <<>>
    THEN <<[fn |-> "Transaction.createInitialWaypoints"]>>
    ELSE <<>>

\* Lines 718-724: validatedWaypoints is a new array on every render, so the
\* effect runs on every render.
getRouteEffect(previousWaypoints, d) ==
    IF d.isOffline \/ ~shouldFetchRoute(previousWaypoints, d)
    THEN <<>>
    ELSE <<[fn |-> "Transaction.getRoute", waypoints |-> getValidWaypoints(d.waypoints)]>>

\* Lines 726-731.
scrollToEndEffect(previousWaypoints, d) ==
    IF numberOfWaypointsOf(d) <= sizeOf(previousWaypoints)
    THEN <<>>
    ELSE <<[fn |-> "scrollToEnd"]>>

\* The effects one render of DistanceRequest commits, in their order.
DistanceRequestEffects(isFirstRender, previousWaypoints, d) ==
    createInitialWaypointsEffect(isFirstRender, d)
    \o getRouteEffect(previousWaypoints, d)
    \o scrollToEndEffect(previousWaypoints, d)

\* A render of DistanceRequest after the first, on the state d.
DistanceRequest(d) ==
    /\ distance' = d
    /\ calls' = DistanceRequestEffects(FALSE, {distance.waypoints}, d)
    /\ UNCHANGED <<modalCells, signIn, signInView>>

\* The transaction the screen is opened on: a new request without waypoints,
\* or a request being edited.
InitDistance ==
    /\ \E w \in {<<>>, <<"a", "b">>, <<"a", "empty">>}, e \in BOOLEAN, o \in BOOLEAN :
        distance = [waypoints |-> w, isLoading |-> FALSE, hasRouteError |-> e,
                    hasRoute |-> (w = <<"a", "b">> /\ ~e), isOffline |-> o,
                    rendered |-> FALSE]
    /\ props \in {p \in PropsSet : ~p.defaultOpen /\ ~p.onConfirm}
    /\ Mounted
    /\ signIn = "none"
    /\ signInView = "none"

\* The first render: usePrevious gives undefined or the value itself.
MountDistanceRequest ==
    /\ ~distance.rendered
    /\ distance' = [distance EXCEPT !.rendered = TRUE]
    /\ \E previousWaypoints \in {{}, {distance.waypoints}} :
        calls' = DistanceRequestEffects(TRUE, previousWaypoints, distance)
    /\ UNCHANGED <<modalCells, signIn, signInView>>
    /\ lastCallback' = "DistanceRequest"

\* Onyx delivers a transaction whose isLoading, errorFields.route or route
\* changed (Transaction.getRoute and its responses are not among the sources).
TransactionUpdated ==
    /\ distance.rendered
    /\ \E f \in {"isLoading", "hasRouteError", "hasRoute"} :
        DistanceRequest([distance EXCEPT ![f] = ~distance[f]])
    /\ lastCallback' = "TransactionUpdated"

\* useNetwork, line 649.
NetworkChanged ==
    /\ distance.rendered
    /\ DistanceRequest([distance EXCEPT !.isOffline = ~distance.isOffline])
    /\ lastCallback' = "NetworkChanged"

\* What Transaction.createInitialWaypoints writes: the start and the finish.
InitialWaypointsCreated ==
    /\ distance.rendered
    /\ distance.waypoints = <<>>
    /\ DistanceRequest([distance EXCEPT !.waypoints = <<"empty", "empty">>])
    /\ lastCallback' = "InitialWaypointsCreated"

isAddStopDisabled_OffByOne(d) == numberOfWaypointsOf(d) = MAX_WAYPOINTS + 1

\* Line 764.
isAddStopDisabled(d) == numberOfWaypointsOf(d) = MAX_WAYPOINTS

NavigateToWaypoint(index) ==
    /\ calls' = <<[fn |-> "Navigation.navigate", route |-> "MoneyRequestWaypoint", index |-> index]>>
    /\ UNCHANGED <<modalCells, signIn, signInView, distance>>

\* Lines 756-766: the add-stop button's onPress.
AddStopPressed ==
    /\ distance.rendered
    /\ ~isAddStopDisabled(distance)
    /\ LET newIndex == Len(distance.waypoints)
       IN  NavigateToWaypoint(newIndex)
    /\ lastCallback' = "AddStopPressed"

\* Line 836: a waypoint row's onPress.
WaypointPressed ==
    /\ distance.rendered
    /\ \E index \in 0 .. (Len(distance.waypoints) - 1) :
        /\ index < MaxVaried
        /\ NavigateToWaypoint(index)
    /\ lastCallback' = "WaypointPressed"

\* The waypoint editor the screen has just navigated to saves an address
\* under the key waypoint<index> (the editor is not among the sources).
WaypointSaved ==
    /\ distance.rendered
    /\ calls # <<>>
    /\ calls[1].fn = "Navigation.navigate"
    /\ LET index == calls[1].index
           w == distance.waypoints
       IN  /\ index <= Len(w)
           /\ \E address \in (IF index < MaxVaried THEN Addresses ELSE {"a"}) :
                DistanceRequest([distance EXCEPT !.waypoints =
                    IF index < Len(w) THEN [w EXCEPT ![index + 1] = address]
                    ELSE Append(w, address)])
    /\ lastCallback' = "WaypointSaved"

\* The orders DraggableList can hand to onDragEnd: the keys of its data.
DropOrders(waypoints) ==
    {data \in [WaypointKeys(waypoints) -> WaypointKeys(waypoints)] :
        \A i, j \in WaypointKeys(waypoints) : data[i] = data[j] => i = j}

lodashGet(waypoints, key, default) ==
    IF key \in WaypointKeys(waypoints) THEN waypoints[key] ELSE default

newWaypointsOf_KeyedByIndex(data, waypoints) ==
    [index \in DOMAIN data |-> lodashGet(waypoints, index + 1, "null")]

\* Lines 797-803: newWaypoints[`waypoint${index}`] = lodashGet(waypoints, waypoint, null).
newWaypointsOf(data, waypoints) ==
    [index \in DOMAIN data |-> lodashGet(waypoints, data[index], "null")]

\* Lines 797-807: onDragEnd, the write Transaction.updateWaypoints makes and
\* the render that follows it.
onDragEnd ==
    /\ distance.rendered
    /\ Len(distance.waypoints) \in 2 .. MaxVaried
    /\ \E data \in DropOrders(distance.waypoints) :
        LET newWaypoints == newWaypointsOf(data, distance.waypoints)
            d == [distance EXCEPT !.waypoints = newWaypoints]
        IN  /\ distance' = d
            /\ calls' = <<[fn |-> "Transaction.updateWaypoints", data |-> data,
                           waypoints |-> newWaypoints]>>
                        \o DistanceRequestEffects(FALSE, {distance.waypoints}, d)
    /\ lastCallback' = "onDragEnd"
    /\ UNCHANGED <<modalCells, signIn, signInView>>

NextDistance ==
    \/ MountDistanceRequest
    \/ TransactionUpdated
    \/ NetworkChanged
    \/ InitialWaypointsCreated
    \/ AddStopPressed
    \/ WaypointPressed
    \/ WaypointSaved
    \/ onDragEnd

SpecDistance == InitDistance /\ [][NextDistance]_vars

-----------------------------------------------------------------------------
(* Properties *)

\* The payload carries a file object.
HasFileObject(d) == d.getAsFile # "null"
\* The size the payload's file object reports, if it reports one.
ReportsSize(d) == HasFileObject(d) /\ d.obj.hasSize
Rejected(title, reason) ==
    /\ isAttachmentInvalid'
    /\ attachmentInvalidReasonTitle' = title
    /\ attachmentInvalidReason' = reason

\* C1: a payload that is no directory entry and whose file object reports a size
\* with MIN_SIZE <= size <= MAX_SIZE is accepted by displayFileInModal: the file
\* cell holds that file (same kind and size, its name cleaned for a browser
\* File), the source is its object URL (browser File) or its uri (uri object),
\* the invalid-file flag is not raised and isModalOpen is true.
C1_FileWithinBoundsIsAccepted ==
    [][\A d \in Candidates :
        (/\ validateAndDisplayFileToUpload(d)
         /\ d.entry # "dir"
         /\ ReportsSize(d) /\ d.obj.size >= MIN_SIZE /\ d.obj.size <= MAX_SIZE)
        => /\ isModalOpen'
           /\ file'.kind = d.obj.kind /\ file'.size = d.obj.size
           /\ file'.name = (IF d.obj.kind = "File" THEN cleanFileName(d.obj.name) ELSE d.obj.name)
           /\ source' = (IF d.obj.kind = "File" THEN ObjectURL(file') ELSE UrlSource(d.obj.uri))
           /\ isAttachmentInvalid' = isAttachmentInvalid]_vars

\* C1 witness: a browser File of exactly MAX_SIZE bytes was accepted.
C1_Witness ==
    /\ isModalOpen /\ file.kind = "File" /\ file.size = MAX_SIZE
    /\ source = ObjectURL(file) /\ ~isAttachmentInvalid /\ calls = <<>>

\* C2: a file object (no directory entry) of size > MAX_SIZE is rejected with
\* title attachmentTooLarge and body sizeExceeded, and source (and file and
\* isModalOpen) keep the values they had before the call.
C2_TooLargeIsRejected ==
    [][\A d \in Candidates :
        (/\ validateAndDisplayFileToUpload(d)
         /\ d.entry # "dir"
         /\ ReportsSize(d) /\ d.obj.size > MAX_SIZE)
        => /\ Rejected("attachmentPicker.attachmentTooLarge", "attachmentPicker.sizeExceeded")
           /\ UNCHANGED <<source, file, isModalOpen>>]_vars

\* C2 witness: the too-large dialog is up over a source accepted earlier.
C2_Witness ==
    /\ isAttachmentInvalid
    /\ attachmentInvalidReasonTitle = "attachmentPicker.attachmentTooLarge"
    /\ attachmentInvalidReason = "attachmentPicker.sizeExceeded"
    /\ source.kind = "blob"

\* C3: a file object (no directory entry) of size < MIN_SIZE, of 0 bytes, or
\* reporting no size at all is rejected with title attachmentTooSmall and body
\* sizeNotMet, and source (and file and isModalOpen) keep their values.
C3_TooSmallIsRejected ==
    [][\A d \in Candidates :
        (/\ validateAndDisplayFileToUpload(d)
         /\ d.entry # "dir"
         /\ HasFileObject(d)
         /\ (~d.obj.hasSize \/ d.obj.size < MIN_SIZE))
        => /\ Rejected("attachmentPicker.attachmentTooSmall", "attachmentPicker.sizeNotMet")
           /\ UNCHANGED <<source, file, isModalOpen>>]_vars

\* C3 witness: the too-small dialog is up over a source accepted earlier.
C3_Witness ==
    /\ isAttachmentInvalid
    /\ attachmentInvalidReasonTitle = "attachmentPicker.attachmentTooSmall"
    /\ attachmentInvalidReason = "attachmentPicker.sizeNotMet"
    /\ source.kind = "blob"

\* C4: the rules apply in the order directory, size > MAX_SIZE, size < MIN_SIZE
\* and the first that fails alone sets the reason: a directory entry gets the
\* folder reason whatever its size, and a size reason is only ever set for a
\* payload that is no directory entry.
C4_FirstFailingRuleWins ==
    [][\A d \in Candidates :
        validateAndDisplayFileToUpload(d)
        => /\ d.entry = "dir"
                => /\ Rejected("attachmentPicker.attachmentError", "attachmentPicker.folderNotAllowedMessage")
                   /\ UNCHANGED <<source, file, isModalOpen>>
           /\ (d.entry # "dir" /\ HasFileObject(d) /\ FileSize(d.obj) > MAX_SIZE)
                => attachmentInvalidReason' = "attachmentPicker.sizeExceeded"
           /\ (d.entry # "dir" /\ HasFileObject(d) /\ FileSize(d.obj) <= MAX_SIZE /\ FileSize(d.obj) < MIN_SIZE)
                => attachmentInvalidReason' = "attachmentPicker.sizeNotMet"]_vars

\* C4 witness: the folder dialog is up.
C4_Witness ==
    /\ isAttachmentInvalid
    /\ attachmentInvalidReasonTitle = "attachmentPicker.attachmentError"
    /\ attachmentInvalidReason = "attachmentPicker.folderNotAllowedMessage"

CallsOf(fn, cs) == {i \in DOMAIN cs : cs[i].fn = fn}

\* C5: submitAndClose changes nothing and calls nothing while the modal is
\* closed or the confirm button is disabled; otherwise it calls props.onConfirm
\* (when one was supplied) exactly once, with the file extended by the current
\* source, and isModalOpen becomes false.  In no step at all is props.onConfirm
\* called from a state where the modal is closed or the button disabled.
C5_SubmitOnlyWhenOpenAndEnabled ==
    [][/\ (submitAndClose /\ (~isModalOpen \/ isConfirmButtonDisabled))
            => calls' = <<>> /\ UNCHANGED <<isModalOpen, stateVars, modalSurfaceShown>>
       /\ (submitAndClose /\ isModalOpen /\ ~isConfirmButtonDisabled)
            => /\ ~isModalOpen'
               /\ props.onConfirm
                    => /\ Len(calls') = 1 /\ calls'[1].fn = "props.onConfirm"
                       /\ calls'[1].arg.source = source
                       /\ file.kind # "undefined" => calls'[1].arg.name = file.name
       /\ CallsOf("props.onConfirm", calls') # {}
            => isModalOpen /\ ~isConfirmButtonDisabled /\ Cardinality(CallsOf("props.onConfirm", calls')) = 1]_vars

\* C5 witness: the confirm callback has just been called and the modal is closed.
C5_Witness ==
    /\ Len(calls) = 1 /\ calls[1].fn = "props.onConfirm"
    /\ ~isModalOpen /\ file.kind = "File" /\ calls[1].arg.source = source

C7_NavigationAfterHideHook ==
    [][/\ ReplaceSelected
            => /\ CallsOf("Navigation.navigate", calls') = {}
               /\ ~isModalOpen' /\ onModalHideCallbackRef' = "navigateToReplace"
       /\ \A i \in CallsOf("Navigation.navigate", calls') :
            /\ ~isModalOpen /\ ~isModalOpen'
            /\ modalSurfaceShown /\ ~modalSurfaceShown'
            /\ onModalHideCallbackRef = "navigateToReplace"
            /\ i > 1 /\ calls'[i - 1].fn = "props.onModalHide"]_vars

\* C7 witness: the hide hook has run the navigation queued by Replace.
C7_Witness ==
    /\ Len(calls) = 2 /\ calls[2].fn = "Navigation.navigate"
    /\ navRunsSinceReplace = 1 /\ ~isModalOpen

\* C8: a queued navigation runs once: since Replace was last selected the
\* navigation has run at most one time, whatever show / close cycles followed.
C8_DeferredActionRunsOnce == navRunsSinceReplace <= 1

\* C9 as claimed: shouldLoadAttachment is true only while isModalOpen is true.
C9_LoadingOnlyWhileOpen == shouldLoadAttachment => isModalOpen

\* C9 as amended: shouldLoadAttachment is true only between the show hook and
\* the hide hook: the surface is shown, and the modal is open or has been closed
\* and the hide hook of that close has not run yet.
C9_LoadingOnlyUntilHideHook ==
    shouldLoadAttachment => (modalSurfaceShown /\ (isModalOpen \/ hideHooksForClose = 0))

\* C9 witness: the modal was closed and the hide hook is still to come.
C9_Witness == shouldLoadAttachment /\ ~isModalOpen /\ modalSurfaceShown

-----------------------------------------------------------------------------
(* Frame and error handling *)

\* The verdict of the rules on a payload that carries a directory entry or a
\* file object.
VerdictOf(d) == IF d.entry = "dir" THEN isDirectoryCheck(d) ELSE isValidFile(d.obj)
IsRejected(d) == d.entry = "dir" \/ (d.entry # "null" /\ HasFileObject(d) /\ ~isValidFile(d.obj).valid)
IsMissing(d) == d.entry # "dir" /\ ~HasFileObject(d)

\* C15 as claimed: source and file change only in an onNavigate step or in a
\* displayFileInModal step that accepts its payload; a rejected or missing
\* payload and every other callback (show, close, submitAndClose, the keyboard
\* toggle, download, the menu items and the dialogs) leave both as they were.
C15_SourceAndFileChangeOnlyByNavigateOrAccept ==
    [][/\ (source' # source \/ file' # file)
            => lastCallback' \in {"onNavigate", "displayFileInModal"}
       /\ \A d \in Candidates :
            (validateAndDisplayFileToUpload(d) /\ (IsRejected(d) \/ IsMissing(d)))
                => UNCHANGED <<source, file>>]_vars

\* C16: a rejected payload (directory, too large, too small) only raises the
\* invalid-file dialog with the title and body of its rule: isModalOpen, source,
\* file, modalType and every other cell keep their values.  Dismissing the
\* dialog lowers the flag, calls nothing (no retry) and changes no other cell.
C16_RejectionLeavesModalAlone ==
    [][/\ \A d \in Candidates :
            (validateAndDisplayFileToUpload(d) /\ IsRejected(d))
                => /\ Rejected(VerdictOf(d).title, VerdictOf(d).reason)
                   /\ calls' = <<>>
                   /\ UNCHANGED <<isModalOpen, source, file, modalType, shouldLoadAttachment,
                                  isDeleteReceiptConfirmModalVisible, isAuthTokenRequired,
                                  isAttachmentReceipt, isConfirmButtonDisabled,
                                  onModalHideCallbackRef, modalSurfaceShown>>
       /\ (closeConfirmModal /\ isAttachmentInvalid)
            => /\ ~isAttachmentInvalid'
               /\ calls' = <<>>
               /\ UNCHANGED <<isModalOpen, source, file, modalType, shouldLoadAttachment,
                              isDeleteReceiptConfirmModalVisible, isAuthTokenRequired,
                              isAttachmentReceipt, attachmentInvalidReasonTitle,
                              attachmentInvalidReason, isConfirmButtonDisabled,
                              onModalHideCallbackRef, modalSurfaceShown>>]_vars

\* C16 witness: the too-large dialog was raised over an open preview and has
\* been dismissed; the preview is still open on its file.
C16_Witness ==
    /\ lastCallback = "closeConfirmModal" /\ ~isAttachmentInvalid
    /\ attachmentInvalidReasonTitle = "attachmentPicker.attachmentTooLarge"
    /\ isModalOpen /\ file.kind = "File" /\ source = ObjectURL(file)

ClosingStep == lastCallback' \in {"closeModal", "submitAndClose", "common.replace", "onModalHide"}

\* C18 as claimed: once the modal has been closed the invalid-file flag is
\* false.
C18_CloseDiscardsInvalidFlag ==
    (~isModalOpen /\ lastCallback \in {"closeModal", "submitAndClose", "onModalHide"})
        => ~isAttachmentInvalid

\* C18 as amended: closing the modal (close, back button, confirm, Replace)
\* and the hide hook leave the invalid-file flag and its title and body as they
\* were, the flag is lowered by dismissing the dialog only, and a closing step
\* calls nothing but the confirm callback, the hide callback and the queued
\* navigation: nothing that cancels a download.
C18_CloseKeepsInvalidFlag ==
    [][/\ ClosingStep
            => /\ UNCHANGED <<isAttachmentInvalid, attachmentInvalidReasonTitle,
                              attachmentInvalidReason>>
               /\ \A i \in DOMAIN calls' :
                    calls'[i].fn \in {"props.onConfirm", "props.onModalHide", "Navigation.navigate"}
       /\ (isAttachmentInvalid /\ ~isAttachmentInvalid')
            => lastCallback' = "closeConfirmModal"]_vars

\* C18 witness: the preview was closed, and its hide hook has run, with the
\* rejection dialog still raised.
C18_Witness ==
    /\ isAttachmentInvalid /\ ~isModalOpen /\ lastCallback = "onModalHide"
    /\ file.kind = "File"

\* C19 as claimed: after a carousel navigation and after a newly accepted file
\* modalType is what getModalType gives for the new source and file.
C19_ModalTypeFollowsSource ==
    [][(\/ lastCallback' = "onNavigate"
        \/ lastCallback' = "displayFileInModal" /\ (source' # source \/ file' # file))
        => modalType' = getModalType(source', file')]_vars

\* C20: updateConfirmButtonVisibility(b) leaves b in isConfirmButtonDisabled and
\* changes no other cell; no other callback changes isConfirmButtonDisabled, in
\* particular not show, close, submitAndClose or displayFileInModal.
C20_ConfirmGateIsIndependent ==
    [][/\ \A b \in BOOLEAN :
            updateConfirmButtonVisibility(b)
                => /\ isConfirmButtonDisabled' = b
                   /\ UNCHANGED <<isModalOpen, shouldLoadAttachment, isAttachmentInvalid,
                                  isDeleteReceiptConfirmModalVisible, isAuthTokenRequired,
                                  isAttachmentReceipt, attachmentInvalidReasonTitle,
                                  attachmentInvalidReason, source, modalType, file,
                                  onModalHideCallbackRef, modalSurfaceShown>>
       /\ isConfirmButtonDisabled' # isConfirmButtonDisabled
            => lastCallback' = "updateConfirmButtonVisibility"
       /\ (openModal \/ closeModal \/ submitAndClose \/ DisplayFileInModal)
            => UNCHANGED isConfirmButtonDisabled]_vars

\* C20 witness: the gate was left disabled when the modal closed, the hide
\* hook ran, and show() has just reopened the modal with the gate still
\* disabled.
C20_Witness ==
    /\ isConfirmButtonDisabled /\ isModalOpen /\ lastCallback = "openModal"
    /\ hideHooksForClose = 1 /\ ~modalSurfaceShown

\* C21 as claimed: the file object of record never carries a field it did not
\* have when it was accepted or navigated to, and no callback other than an
\* accepting displayFileInModal or onNavigate changes it.
C21_FileOfRecordIsImmutable ==
    [][/\ file'.kind # "undefined" => file'.source = NotExtended
       /\ file' # file => lastCallback' \in {"onNavigate", "displayFileInModal"}]_vars

\* The payload passes the rules and is accepted.
IsAccepted(d) == d.entry \notin {"dir", "null"} /\ HasFileObject(d) /\ isValidFile(d.obj).valid

\* C22 as claimed: whatever the kind of the accepted file object (a browser
\* File or an object with a uri), the file of record bears the cleaned name
\* and keeps kind and size, and a file object whose name is clean already is
\* itself the file of record.
C22_AcceptedNameIsCleaned ==
    [][\A d \in Candidates :
        (validateAndDisplayFileToUpload(d) /\ IsAccepted(d))
            => /\ file'.name = cleanFileName(d.obj.name)
               /\ file'.kind = d.obj.kind /\ file'.size = d.obj.size
               /\ d.obj.name = cleanFileName(d.obj.name) => file' = d.obj]_vars

\* C23 as claimed: a non-empty menu has Download, and every call of the
\* download routine is handed the source held when the download is asked for,
\* wrapped by addEncryptedAuthTokenToURL exactly when isAuthTokenRequired holds
\* at that moment.
C23_DownloadTargetsCurrentSource ==
    [][/\ threeDotsMenuItems # <<>> => MenuHas("common.download")
       /\ \A i \in CallsOf("fileDownload", calls') :
            calls'[i].url = (IF isAuthTokenRequired THEN AuthTokenURL(source) ELSE source)]_vars

\* C24: selecting Delete receipt raises the confirmation dialog, calls
\* nothing and changes no other cell; IOU.detachReceipt is called by the
\* dialog's confirm only, once, with the dialog up, followed by one
\* Navigation.dismissModal, and the dialog is lowered; cancelling lowers the
\* dialog, calls nothing and leaves the modal state, source and file alone.
C24_DetachOnlyOnConfirm ==
    [][/\ DeleteReceiptSelected
            => /\ isDeleteReceiptConfirmModalVisible' /\ calls' = <<>>
               /\ UNCHANGED <<isModalOpen, shouldLoadAttachment, isAttachmentInvalid,
                              isAuthTokenRequired, isAttachmentReceipt, source, modalType,
                              isConfirmButtonDisabled, file, onModalHideCallbackRef,
                              modalSurfaceShown>>
       /\ CallsOf("IOU.detachReceipt", calls') # {}
            => /\ lastCallback' = "deleteAndCloseModal"
               /\ isDeleteReceiptConfirmModalVisible /\ ~isDeleteReceiptConfirmModalVisible'
               /\ calls' = <<Call("IOU.detachReceipt"), Call("Navigation.dismissModal")>>
       /\ CallsOf("Navigation.dismissModal", calls') # {}
            => lastCallback' = "deleteAndCloseModal"
       /\ (closeConfirmModal /\ isDeleteReceiptConfirmModalVisible)
            => /\ ~isDeleteReceiptConfirmModalVisible' /\ calls' = <<>>
               /\ UNCHANGED <<isModalOpen, shouldLoadAttachment, isAuthTokenRequired,
                              isAttachmentReceipt, source, modalType, isConfirmButtonDisabled,
                              file, onModalHideCallbackRef, modalSurfaceShown>>]_vars

\* C24 witness: the dialog was confirmed: the receipt was detached and the
\* view dismissed, and the dialog is down.
C24_Witness ==
    /\ lastCallback = "deleteAndCloseModal" /\ ~isDeleteReceiptConfirmModalVisible
    /\ calls = <<Call("IOU.detachReceipt"), Call("Navigation.dismissModal")>>

-----------------------------------------------------------------------------
(* The sign-in page (checked under SpecSignIn) *)

\* C25: the render logs the warning exactly when its options select none of
\* the five views and no SAML login is to be initiated; it logs it once, and in
\* that state no view is rendered and the welcome header and text are empty.
C25_WarningIffUnexpectedState ==
    /\ (CallsOf("Log.warn", calls) # {})
            <=> /\ ~signInView.options.shouldShowLoginForm
                /\ ~signInView.options.shouldShowValidateCodeForm
                /\ ~signInView.options.shouldShowUnlinkLoginForm
                /\ ~signInView.options.shouldShowEmailDeliveryFailurePage
                /\ ~signInView.options.shouldShowChooseSSOOrMagicCode
                /\ ~signInView.options.shouldInitiateSAMLLogin
    /\ Cardinality(CallsOf("Log.warn", calls)) <= 1
    /\ CallsOf("Log.warn", calls) # {}
            => /\ signInView.views = {}
               /\ signInView.welcomeHeader = <<>> /\ signInView.welcomeText = <<>>

\* C25 witness: a login without an account and without a SAML requirement:
\* the warning was logged.
C25_Witness ==
    /\ signIn.hasLogin /\ ~signIn.hasAccount /\ signIn.isPrimaryLogin
    /\ ~signIn.hasEmailDeliveryFailure
    /\ calls = <<Call("Log.warn")>> /\ signInView.views = {}

\* C26 as claimed: at most one of the five views is selected, whatever the
\* nine inputs of getRenderOptions are.
C26_AtMostOneView == Cardinality(signInView.views) <= 1

\* C27: where SAML is permitted, with an account, a login and SAML required,
\* neither the validate-code form nor the chooser is shown, whatever
\* isUsingMagicCode is; the SAML route is navigated to only by a render whose
\* options initiate the SAML login while the login form is loading.
C27_SAMLRequiredBypassesForms ==
    /\ (signIn.isSAMLPermitted /\ signIn.hasAccount /\ signIn.hasLogin /\ signIn.isSAMLRequired)
            => /\ "ValidateCodeForm" \notin signInView.views
               /\ "ChooseSSOOrMagicCode" \notin signInView.views
               /\ ~signInView.options.shouldShowValidateCodeForm
               /\ ~signInView.options.shouldShowChooseSSOOrMagicCode
    /\ CallsOf("Navigation.navigate", calls) # {}
            => /\ signInView.options.shouldInitiateSAMLLogin /\ signIn.isLoadingLoginForm
               /\ \A i \in CallsOf("Navigation.navigate", calls) :
                    calls[i].route = "ROUTES.SAML_SIGN_IN"

\* C27 witness: SAML is required and the user had chosen magic codes before;
\* the render navigates to the SAML route and shows no form.
C27_Witness ==
    /\ signIn.isSAMLPermitted /\ signIn.hasAccount /\ signIn.hasLogin /\ signIn.isSAMLRequired
    /\ signIn.isUsingMagicCode /\ signIn.isLoadingLoginForm
    /\ Len(calls) = 1 /\ calls[1].fn = "Navigation.navigate"

-----------------------------------------------------------------------------
(* The receipt menu (checked under SpecMenu) *)

\* The inputs of the menu, read from the props as lines 374-384 and 400 do.
MenuComputed == isAttachmentReceipt /\ props.menu.parentReport /\ props.menu.parentReportActions
AdminOfExpenseReport == props.menu.isAdminOfFreePolicy /\ props.menu.isExpenseReport
RequesterOfMoneyRequest == props.menu.isMoneyRequestReport /\ props.menu.isActor

\* C11 as claimed: with a settled parent the non-empty menu has Download and
\* has neither Replace nor Delete receipt, whatever the other inputs are.
C11_SettledMenuIsDownloadOnly ==
    (threeDotsMenuItems # <<>> /\ props.menu.isSettled) =>
        /\ ~MenuHas("common.replace")
        /\ ~MenuHas("receipt.deleteReceipt")
        /\ MenuHas("common.download")

\* C12: the menu is non-empty exactly when the attachment is a receipt and the
\* parent report and the parent report actions are both available; otherwise
\* it has no entry at all.
C12_MenuOnlyWithReceiptContext ==
    /\ (threeDotsMenuItems # <<>>) <=> MenuComputed
    /\ ~MenuComputed =>
          ~MenuHas("common.replace") /\ ~MenuHas("common.download") /\ ~MenuHas("receipt.deleteReceipt")

\* C12 witness: a receipt is previewed with the parent report present and the
\* parent report actions missing, after a carousel navigation.
C12_Witness ==
    /\ isAttachmentReceipt /\ props.menu.parentReport /\ ~props.menu.parentReportActions
    /\ Len(calls) = 1 /\ calls[1].fn = "props.onCarouselAttachmentChange"

\* C13: in a non-empty menu Replace is present exactly when the parent is not
\* settled, the originating action is not deleted, and the user is an admin of
\* the free policy of an expense report or the requester of a money-request
\* report.
C13_ReplaceIffEditable ==
    threeDotsMenuItems # <<>> =>
        (MenuHas("common.replace") <=>
            /\ ~props.menu.isSettled
            /\ ~props.menu.isDeleted
            /\ (AdminOfExpenseReport \/ RequesterOfMoneyRequest))

\* C13 witness: Replace is withheld from a requester only because the
\* originating action is deleted.
C13_Witness ==
    /\ threeDotsMenuItems # <<>> /\ ~MenuHas("common.replace")
    /\ ~props.menu.isSettled /\ props.menu.isDeleted /\ RequesterOfMoneyRequest

\* C14: in a non-empty menu Delete receipt is present exactly when the
\* transaction has a receipt that is not being scanned.
C14_DeleteIffReceiptNotScanning ==
    threeDotsMenuItems # <<>> =>
        (MenuHas("receipt.deleteReceipt") <=>
            (props.menu.hasReceipt /\ ~props.menu.isReceiptBeingScanned))

\* C14 witness: Delete receipt is withheld only because the receipt is being
\* scanned.
C14_Witness ==
    /\ threeDotsMenuItems # <<>> /\ ~MenuHas("receipt.deleteReceipt")
    /\ props.menu.hasReceipt /\ props.menu.isReceiptBeingScanned

-----------------------------------------------------------------------------
(* The distance-request screen (checked under SpecDistance) *)

\* The render that has just run asked for a route.
RouteFetched == \E i \in DOMAIN calls : calls[i].fn = "Transaction.getRoute"
\* The step is a render after the first and leaves the validated waypoints as they were.
ValidatedWaypointsKept ==
    /\ distance.rendered
    /\ getValidWaypoints(distance'.waypoints) = getValidWaypoints(distance.waypoints)

\* C28: a route fetch is issued only when the client is online, no route is
\* loading, at least two waypoints are validated, and either the route is
\* absent with no route error or the validated waypoints differ from those of
\* the previous render; while a route error is present and the validated
\* waypoints are unchanged, no fetch is issued again.
C28_FetchOnlyWhenWarranted ==
    [][ /\ RouteFetched' =>
            /\ ~distance'.isOffline
            /\ ~distance'.isLoading
            /\ Len(getValidWaypoints(distance'.waypoints)) >= 2
            /\ \/ ~distance'.hasRoute /\ ~distance'.hasRouteError
               \/ ~ValidatedWaypointsKept
        /\ distance'.hasRouteError /\ ValidatedWaypointsKept => ~RouteFetched' ]_vars

\* A fetch issued under a route error, because a saved stop changed the
\* validated waypoints.
C28_Witness ==
    /\ RouteFetched
    /\ distance.hasRouteError
    /\ lastCallback = "WaypointSaved"

\* How many waypoints of the map hold the value v.
CountOf(v, waypoints) == Cardinality({i \in DOMAIN waypoints : waypoints[i] = v})
\* The map handed to Transaction.updateWaypoints by the drop that has just run.
DroppedWaypoints == calls[1].waypoints

\* C29: a drop produces a waypoint map with the keys waypoint0..waypoint(n-1)
\* in the dropped order, whose values are a permutation of the values before:
\* none is lost, duplicated or replaced by null, and n is unchanged.
C29_DropPermutesWaypoints ==
    [][ lastCallback' = "onDragEnd" =>
            /\ calls'[1].fn = "Transaction.updateWaypoints"
            /\ DOMAIN DroppedWaypoints' = 1 .. Len(distance.waypoints)
            /\ \A i \in DOMAIN DroppedWaypoints' :
                /\ DroppedWaypoints'[i] = distance.waypoints[calls'[1].data[i]]
                /\ DroppedWaypoints'[i] # "null"
            /\ \A v \in Addresses \cup {"empty", "null"} :
                CountOf(v, DroppedWaypoints') = CountOf(v, distance.waypoints) ]_vars

\* Three different waypoints dropped in an order that moves the last one to the top.
C29_Witness ==
    /\ lastCallback = "onDragEnd"
    /\ calls[1].data = <<3, 1, 2>>
    /\ DroppedWaypoints = <<"empty", "b", "a">>

\* C30: the add-stop control is enabled exactly when there are fewer than
\* MAX_WAYPOINTS waypoints, so the list never grows beyond MAX_WAYPOINTS, and
\* a press addresses the new stop at the index equal to the current count.
C30_AddStopIsCapped ==
    [][ /\ Len(distance'.waypoints) <= MAX_WAYPOINTS
        /\ ~isAddStopDisabled(distance') <=> Len(distance'.waypoints) < MAX_WAYPOINTS
        /\ lastCallback' = "AddStopPressed" =>
            /\ Len(distance.waypoints) < MAX_WAYPOINTS
            /\ calls' = <<[fn |-> "Navigation.navigate", route |-> "MoneyRequestWaypoint",
                           index |-> Len(distance.waypoints)]>> ]_vars

\* The stop added at index MAX_WAYPOINTS - 1 has been saved: the list is full
\* and the control is disabled.
C30_Witness ==
    /\ lastCallback = "WaypointSaved"
    /\ Len(distance.waypoints) = MAX_WAYPOINTS
    /\ isAddStopDisabled(distance)

====
